---------------------------- MODULE Spec2Model ----------------------------
(***************************************************************************)
(* Model of the cart ledger of signal-store: CartStateService              *)
(* (src/src/app/shared/data-access/cart-state.service.ts), its storage     *)
(* collaborator, the saveProducts effect and the memoised count signal;    *)
(* and of the product-list state, ProductsStateService                     *)
(* (src/src/app/data-access/products-state.service.ts).                    *)
(*                                                                         *)
(* Line items are heap objects: state.products is an array of references,  *)
(* because add() increments the quantity of the object it finds in place.  *)
(***************************************************************************)
EXTENDS Integers, Sequences, FiniteSets, TLC

(***************************************************************************)
(* Bounds of the model.                                                    *)
(***************************************************************************)
MaxAdds == 2        \* add calls in one session
MaxPersistedAdds == 2   \* add calls of the earlier sessions that built the persisted list
MaxPageChanges == 2     \* ProductList.changePage calls in one session

NoId == "undefined" \* product.id of a malformed product (the property is missing)
ProductIds == {"a", "b", NoId}
ArgQuantities == {0, 1}      \* quantity field carried by the argument of state.add
                             \* (ProductList.addToCart passes 1)

VARIABLES
    heap,          \* line-item objects: reference -> [product, quantity]
    state,         \* the signalSlice state: [products: array of references, loaded]
    loadStatus,    \* the storage load request: "pending", "resolved", "failed"
    loadResult,    \* the list the load request answers with (by value)
    saves,         \* saveProducts calls issued so far: [by, products (by value)]
    effectPending, \* the saveProducts effect is scheduled to run
    effectTracksState, \* the last run of the effect read state() (not only state.loaded())
    countMemo,     \* memo of the computed signal count: <<n>>, or <<>> when the
                   \* state signal changed since it was computed
    lastSaveOk,    \* the most recent save request succeeded (TRUE before the first)
    calls,         \* state-changing events in the order observed: "load" or a product id
    lastArg,       \* the argument of the last state.add call, <<>> before the first
    productsState, \* the ProductsStateService state: [products, status, page]
    fetching,      \* page of the getProducts request in flight, 0 when there is none
    loadAlive,     \* loadProducts$ is still subscribed to changePage$
    fetched,       \* pages getProducts was called with, in order
    pageChanges    \* number of ProductList.changePage calls made

cartVars == <<heap, state, loadStatus, loadResult, saves, effectPending,
              effectTracksState, countMemo, lastSaveOk, calls, lastArg>>

productVars == <<productsState, fetching, loadAlive, fetched, pageChanges>>

vars == <<cartVars, productVars>>

(***************************************************************************)
(* Helpers.                                                                *)
(***************************************************************************)
LineItem(id, q) == [product |-> [id |-> id], quantity |-> q]

\* The line items an array of references denotes, by value.
Items(products, h) == [i \in 1..Len(products) |-> h[products[i]]]

\* Lists the earlier sessions can have persisted: saved by saveProducts from a
\* state of the ledger that add calls built, serialised and parsed back.
RECURSIVE SeqsUpTo(_, _)
SeqsUpTo(S, n) ==
    IF n = 0 THEN {<<>>}
    ELSE LET shorter == SeqsUpTo(S, n - 1)
         IN  shorter \cup {Append(s, x) : s \in {t \in shorter : Len(t) = n - 1}, x \in S}

RECURSIVE Units(_)
Units(s) == IF s = <<>> THEN 0 ELSE s[1].quantity + Units(Tail(s))

PersistedLists ==
    {s \in SeqsUpTo({LineItem(id, q) : id \in ProductIds, q \in 1..MaxPersistedAdds},
                    MaxPersistedAdds) :
        /\ \A i, j \in 1..Len(s) : s[i].product.id = s[j].product.id => i = j
        /\ Units(s) <= MaxPersistedAdds}

(***************************************************************************)
(* CartStateService                                                        *)
(***************************************************************************)
initialState == [products |-> <<>>, loaded |-> FALSE]

\* Variant of find: the comparison never succeeds (an identifier is read from
\* the wrong object).
find_mismatch(products, h, id) == 0

\* Variant of find: the predicate ignores the product that is added, so the
\* first line item matches whenever the cart is not empty.
find_anyLine(products, h, id) == IF products = <<>> THEN 0 ELSE 1

\* Variant of find: a missing identifier matches nothing (the predicate also
\* requires the identifier to be defined).
find_definedOnly(products, h, id) ==
    LET hits == {i \in 1..Len(products) : h[products[i]].product.id = id /\ id # NoId}
    IN  IF hits = {} THEN 0 ELSE CHOOSE i \in hits : \A j \in hits : i <= j

\* Array.prototype.find: index of the first line item with that product id, 0 if none.
find(products, h, id) ==
    LET hits == {i \in 1..Len(products) : h[products[i]].product.id = id}
    IN  IF hits = {} THEN 0 ELSE CHOOSE i \in hits : \A j \in hits : i <= j

\* Variant of add: the new line item keeps the quantity of the argument
\* ({ ...product } without the quantity: 1 override).
add_keepsQuantity(st, h, product) ==
    LET isIncart == find(st.products, h, product.product.id)
    IN  IF isIncart = 0
        THEN [state |-> [products |-> Append(st.products, Len(h) + 1),
                         loaded |-> st.loaded],
              heap  |-> Append(h, [product |-> product.product,
                                   quantity |-> product.quantity])]
        ELSE [state |-> [products |-> st.products, loaded |-> st.loaded],
              heap  |-> [h EXCEPT ![st.products[isIncart]].quantity = @ + 1]]

\* Variant of add: a product already in the cart is left as it is.
add_noIncrement(st, h, product) ==
    LET isIncart == find(st.products, h, product.product.id)
    IN  IF isIncart = 0
        THEN [state |-> [products |-> Append(st.products, Len(h) + 1),
                         loaded |-> st.loaded],
              heap  |-> Append(h, [product |-> product.product, quantity |-> 1])]
        ELSE [state |-> [products |-> st.products, loaded |-> st.loaded],
              heap  |-> h]

\* Variant of add: the new state takes loaded from initialState.
add_dropsLoaded(st, h, product) ==
    LET isIncart == find(st.products, h, product.product.id)
    IN  IF isIncart = 0
        THEN [state |-> [products |-> Append(st.products, Len(h) + 1),
                         loaded |-> FALSE],
              heap  |-> Append(h, [product |-> product.product, quantity |-> 1])]
        ELSE [state |-> [products |-> st.products, loaded |-> FALSE],
              heap  |-> [h EXCEPT ![st.products[isIncart]].quantity = @ + 1]]

\* Variant of add: a new line item is put in front of the list.
add_prepends(st, h, product) ==
    LET isIncart == find(st.products, h, product.product.id)
    IN  IF isIncart = 0
        THEN [state |-> [products |-> <<Len(h) + 1>> \o st.products,
                         loaded |-> st.loaded],
              heap  |-> Append(h, [product |-> product.product, quantity |-> 1])]
        ELSE [state |-> [products |-> st.products, loaded |-> st.loaded],
              heap  |-> [h EXCEPT ![st.products[isIncart]].quantity = @ + 1]]

\* Variant of add: a line item that is incremented is moved to the end of
\* the list.
add_movesToEnd(st, h, product) ==
    LET isIncart == find(st.products, h, product.product.id)
    IN  IF isIncart = 0
        THEN [state |-> [products |-> Append(st.products, Len(h) + 1),
                         loaded |-> st.loaded],
              heap  |-> Append(h, [product |-> product.product, quantity |-> 1])]
        ELSE [state |-> [products |->
                             Append(SelectSeq(st.products,
                                              LAMBDA r : r # st.products[isIncart]),
                                    st.products[isIncart]),
                         loaded |-> st.loaded],
              heap  |-> [h EXCEPT ![st.products[isIncart]].quantity = @ + 1]]

\* Variant of add: the new state is marked loaded.
add_marksLoaded(st, h, product) ==
    LET isIncart == find(st.products, h, product.product.id)
    IN  IF isIncart = 0
        THEN [state |-> [products |-> Append(st.products, Len(h) + 1),
                         loaded |-> TRUE],
              heap  |-> Append(h, [product |-> product.product, quantity |-> 1])]
        ELSE [state |-> [products |-> st.products, loaded |-> TRUE],
              heap  |-> [h EXCEPT ![st.products[isIncart]].quantity = @ + 1]]

\* private add(state, product): the new state and the heap after the call.
add(st, h, product) ==
    LET isIncart == find(st.products, h, product.product.id)
    IN  IF isIncart = 0
        THEN [state |-> [products |-> Append(st.products, Len(h) + 1),
                         loaded |-> st.loaded],
              heap  |-> Append(h, [product |-> product.product, quantity |-> 1])]
        ELSE [state |-> [products |-> st.products, loaded |-> st.loaded],
              heap  |-> [h EXCEPT ![st.products[isIncart]].quantity = @ + 1]]

\* Variant of reduceQuantity: the line items are counted, not their units.
reduceQuantity_countsLines(products, h) == Len(products)

\* products.reduce((total, item) => total + item.quantity, 0)
RECURSIVE reduceQuantity(_, _)
reduceQuantity(products, h) ==
    IF products = <<>> THEN 0
    ELSE reduceQuantity(SubSeq(products, 1, Len(products) - 1), h)
         + h[products[Len(products)]].quantity

\* count(): the computed signal recomputes only when state changed since the last read.
count == IF countMemo = <<>> THEN reduceQuantity(state.products, heap) ELSE countMemo[1]

\* loadProducts$: map((products) => ({ products, loaded: true }))
loadProducts(products) == [products |-> products, loaded |-> TRUE]

\* Variant of update: an emission does not overwrite a cart that already has
\* line items.
update_keepsProducts(st, partial) ==
    [products |-> IF st.products = <<>> THEN partial.products ELSE st.products,
     loaded   |-> partial.loaded]

\* signalSlice merges what a source or an action source emits into the state.
update(st, partial) == [products |-> partial.products, loaded |-> partial.loaded]

\* Variant of changed: add() returns the array it was given when it only
\* incremented a line item, so the state signal sees an equal value.
changed_byValue(old, new) == old # new

\* Does writing new over old change the state signal?  Every emission is merged
\* into a fresh object, and add() returns a new array reference even when it
\* only incremented a line item in place, so the signal always changes.
changed(old, new) == TRUE

\* Variant of effectNotified: the effect reads the state untracked and is
\* never scheduled again.
effectNotified_untracked(old, new) == FALSE

\* Variant of effectNotified: the effect depends on state.loaded() alone.
effectNotified_loadedOnly(old, new) == old.loaded # new.loaded

\* Does a change of state re-schedule the saveProducts effect?  The effect
\* depends on state.loaded() and, when that was true, on state().
effectNotified(old, new) == effectTracksState \/ old.loaded # new.loaded

(***************************************************************************)
(* StorageService                                                          *)
(***************************************************************************)
\* loadProducts(): the request answers with the persisted list, or fails.
StorageLoadOutcomes == {"resolved", "failed"}

\* saveProducts(products): fire-and-forget, the request succeeds or fails.
SaveOutcomes == BOOLEAN

\* saveProducts(products): the list is serialised when the call is made.
saveProducts(by, products, h) == [by |-> by, products |-> Items(products, h)]

\* Variant of emitted: the new state is given up when the save failed.
emitted_onlyIfSaved(newState, st, ok) == IF ok THEN newState ELSE st

\* What the add action source emits after the save call: return newState,
\* whatever became of the save.
emitted(newState, st, ok) == newState

\* Variant of addAction: the list of the state before the call is saved.
addAction_savesOld(st, h, product) ==
    LET r == add(st, h, product)
    IN  [state |-> r.state,
         heap  |-> r.heap,
         saved |-> <<saveProducts("add", st.products, h)>>]

\* Variant of addAction: the save is guarded by loaded, as in the effect.
addAction_savesWhenLoaded(st, h, product) ==
    LET r == add(st, h, product)
    IN  [state |-> r.state,
         heap  |-> r.heap,
         saved |-> IF st.loaded
                   THEN <<saveProducts("add", r.state.products, r.heap)>>
                   ELSE <<>>]

\* Variant of addAction: add is applied to initialState instead of the
\* current value of the state signal.
addAction_staleState(st, h, product) ==
    LET r == add(initialState, h, product)
    IN  [state |-> r.state,
         heap  |-> r.heap,
         saved |-> <<saveProducts("add", r.state.products, r.heap)>>]

\* The add action source: map((product) => { newState = this.add(state, product);
\* saveProducts(newState.products); return newState }).
addAction(st, h, product) ==
    LET r == add(st, h, product)
    IN  [state |-> r.state,
         heap  |-> r.heap,
         saved |-> <<saveProducts("add", r.state.products, r.heap)>>]

(***************************************************************************)
(* ProductsStateService                                                    *)
(***************************************************************************)
productsInitialState == [products |-> <<>>, status |-> "loading", page |-> 1]

\* ProductsService.getProducts(page): the request succeeds or fails.
FetchOutcomes == {"success", "failure"}

\* The products of a successful response for a page.
Response(page) == <<page>>

\* signalSlice merges the fields a source emits into the state.
merge(st, partial) ==
    [f \in DOMAIN st |-> IF f \in DOMAIN partial THEN partial[f] ELSE st[f]]

\* Variant of pageRequested: the page change also empties the products list.
pageRequested_clearsProducts(page) ==
    [page |-> page, status |-> "loading", products |-> <<>>]

\* sources[0]: changePage$.pipe(map(page => ({ page, status: 'loading' })))
pageRequested(page) == [page |-> page, status |-> "loading"]

\* map(products => ({ products, status: 'success' }))
loadSuccess(products) == [products |-> products, status |-> "success"]

\* Variant of nextPage: a call made while a page is loading asks for the
\* same page again.
nextPage_whenSettled(st) == IF st.status = "loading" THEN st.page ELSE st.page + 1

\* ProductList.changePage: const page = this.productState.state.page() + 1
nextPage(st) == st.page + 1

\* Variant of catchError: the error status alone is emitted.
catchError_statusOnly == [status |-> "error"]

\* catchError(() => of({ products: [], status: 'error' }))
catchError == [products |-> <<>>, status |-> "error"]

Init ==
    /\ productsState = productsInitialState
    /\ fetching = 1
    /\ loadAlive = TRUE
    /\ fetched = <<1>>
    /\ pageChanges = 0
    /\ loadResult \in PersistedLists
    /\ loadStatus = "pending"
    /\ heap = <<>>
    /\ state = initialState
    /\ saves = <<>>
    /\ lastSaveOk = TRUE
    /\ effectPending = TRUE
    /\ effectTracksState = FALSE
    /\ countMemo = <<>>
    /\ calls = <<>>
    /\ lastArg = <<>>

NumAdds == Cardinality({i \in 1..Len(calls) : calls[i] # "load"})

\* The storage load resolves: the source emits and replaces the state.
LoadResolve ==
    /\ loadStatus = "pending"
    /\ "resolved" \in StorageLoadOutcomes
    /\ LET n == Len(loadResult)
           refs == [i \in 1..n |-> Len(heap) + i]
           new == update(state, loadProducts(refs))
       IN  /\ heap' = heap \o loadResult
           /\ state' = new
           /\ effectPending' = (effectPending \/ (changed(state, new) /\ effectNotified(state, new)))
           /\ countMemo' = IF changed(state, new) THEN <<>> ELSE countMemo
    /\ loadStatus' = "resolved"
    /\ calls' = Append(calls, "load")
    /\ UNCHANGED <<loadResult, saves, effectTracksState, lastSaveOk, lastArg>>
    /\ UNCHANGED productVars

\* The storage load fails: loadProducts$ has no catchError, the source errors
\* and emits nothing.
LoadFail ==
    /\ loadStatus = "pending"
    /\ "failed" \in StorageLoadOutcomes
    /\ loadStatus' = "failed"
    /\ UNCHANGED <<heap, state, loadResult, saves, effectPending,
                   effectTracksState, countMemo, lastSaveOk, calls, lastArg>>
    /\ UNCHANGED productVars

\* state.add(product): the add action source.
Add(id, q) ==
    /\ NumAdds < MaxAdds
    /\ \E ok \in SaveOutcomes :
       LET r == addAction(state, heap, LineItem(id, q))
           new == update(state, emitted(r.state, state, ok))
       IN  /\ heap' = r.heap
           /\ saves' = saves \o r.saved
           /\ lastSaveOk' = IF r.saved = <<>> THEN lastSaveOk ELSE ok
           /\ state' = new
           /\ effectPending' = (effectPending \/ (changed(state, new) /\ effectNotified(state, new)))
           /\ countMemo' = IF changed(state, new) THEN <<>> ELSE countMemo
    /\ calls' = Append(calls, id)
    /\ lastArg' = LineItem(id, q)
    /\ UNCHANGED <<loadStatus, loadResult, effectTracksState>>
    /\ UNCHANGED productVars

\* Variant of SaveProductsEffect: the save is not guarded by state.loaded().
SaveProductsEffect_unguarded ==
    /\ effectPending
    /\ effectPending' = FALSE
    /\ effectTracksState' = TRUE
    /\ \E ok \in SaveOutcomes :
            LET s == saveProducts("effect", state.products, heap)
            IN  /\ saves' = Append(saves, s)
                /\ lastSaveOk' = ok
    /\ UNCHANGED <<heap, state, loadStatus, loadResult, countMemo, calls, lastArg>>
    /\ UNCHANGED productVars

\* effects.saveProducts runs.
SaveProductsEffect ==
    /\ effectPending
    /\ effectPending' = FALSE
    /\ effectTracksState' = state.loaded
    /\ IF state.loaded
       THEN \E ok \in SaveOutcomes :
            LET s == saveProducts("effect", state.products, heap)
            IN  /\ saves' = Append(saves, s)
                /\ lastSaveOk' = ok
       ELSE UNCHANGED <<saves, lastSaveOk>>
    /\ UNCHANGED <<heap, state, loadStatus, loadResult, countMemo, calls, lastArg>>
    /\ UNCHANGED productVars

\* Header reads cartCount().
ReadCount ==
    /\ countMemo = <<>>
    /\ countMemo' = <<count>>
    /\ UNCHANGED <<heap, state, loadStatus, loadResult, saves,
                   effectPending, effectTracksState, lastSaveOk, calls, lastArg>>
    /\ UNCHANGED productVars

Next ==
    \/ LoadResolve
    \/ LoadFail
    \/ \E id \in ProductIds, q \in ArgQuantities : Add(id, q)
    \/ SaveProductsEffect
    \/ ReadCount

Spec == Init /\ [][Next]_vars

\* The getProducts request in flight answers: loadProducts$ emits the products.
FetchSuccess ==
    /\ fetching # 0
    /\ "success" \in FetchOutcomes
    /\ productsState' = merge(productsState, loadSuccess(Response(fetching)))
    /\ fetching' = 0
    /\ UNCHANGED <<loadAlive, fetched, pageChanges>>
    /\ UNCHANGED cartVars

\* The getProducts request in flight fails: catchError replaces loadProducts$
\* by of({ products: [], status: 'error' }), which emits and completes.
FetchFail ==
    /\ fetching # 0
    /\ "failure" \in FetchOutcomes
    /\ productsState' = merge(productsState, catchError)
    /\ fetching' = 0
    /\ loadAlive' = FALSE
    /\ UNCHANGED <<fetched, pageChanges>>
    /\ UNCHANGED cartVars

\* Variant of ChangePage: the page change also empties the cart.
ChangePage_resetsCart ==
    /\ pageChanges < MaxPageChanges
    /\ pageChanges' = pageChanges + 1
    /\ LET page == nextPage(productsState)
       IN  /\ productsState' = merge(productsState, pageRequested(page))
           /\ IF loadAlive
              THEN fetching' = page /\ fetched' = Append(fetched, page)
              ELSE UNCHANGED <<fetching, fetched>>
    /\ UNCHANGED loadAlive
    /\ state' = [state EXCEPT !.products = <<>>]
    /\ UNCHANGED <<heap, loadStatus, loadResult, saves, effectPending,
                   effectTracksState, countMemo, lastSaveOk, calls, lastArg>>

\* Variant of ChangePage: a request in flight is not dropped, the new page
\* is not fetched while it lasts (exhaustMap in the place of switchMap).
ChangePage_keepsEarlierFetch ==
    /\ pageChanges < MaxPageChanges
    /\ pageChanges' = pageChanges + 1
    /\ LET page == nextPage(productsState)
       IN  /\ productsState' = merge(productsState, pageRequested(page))
           /\ IF loadAlive /\ fetching = 0
              THEN fetching' = page /\ fetched' = Append(fetched, page)
              ELSE UNCHANGED <<fetching, fetched>>
    /\ UNCHANGED loadAlive
    /\ UNCHANGED cartVars

\* ProductList.changePage(): changePage$.next(state.page() + 1).  sources[0]
\* sets page and status; loadProducts$, when it is still subscribed, drops the
\* request in flight (switchMap) and calls getProducts for the new page.
ChangePage ==
    /\ pageChanges < MaxPageChanges
    /\ pageChanges' = pageChanges + 1
    /\ LET page == nextPage(productsState)
       IN  /\ productsState' = merge(productsState, pageRequested(page))
           /\ IF loadAlive
              THEN fetching' = page /\ fetched' = Append(fetched, page)
              ELSE UNCHANGED <<fetching, fetched>>
    /\ UNCHANGED loadAlive
    /\ UNCHANGED cartVars

NextProducts ==
    \/ FetchSuccess
    \/ FetchFail
    \/ ChangePage

\* The product list alone.
SpecProducts == Init /\ [][NextProducts]_vars

\* Every getProducts request that is issued answers or fails in the end.
FairSpecProducts == SpecProducts /\ WF_vars(FetchSuccess \/ FetchFail)

\* The application on a first visit (nothing persisted): cart and product list.
InitFirstVisit == Init /\ loadResult = <<>>

NextApp == Next \/ NextProducts

SpecApp == InitFirstVisit /\ [][NextApp]_vars

\* Angular runs a scheduled effect: a pending saveProducts effect is not
\* postponed for ever.
FairSpec == Spec /\ WF_vars(SaveProductsEffect)

(***************************************************************************)
(* Vocabulary of the properties.                                           *)
(***************************************************************************)
Last(s) == s[Len(s)]

\* The current item list, by value.
CurrentItems == Items(state.products, heap)

\* Position of the load resolution in calls, 0 when the load has not resolved.
LastLoad ==
    LET at == {i \in 1..Len(calls) : calls[i] = "load"}
    IN  IF at = {} THEN 0 ELSE CHOOSE i \in at : \A j \in at : j <= i

\* Positions of the add(id) calls made since the state was last replaced.
AddsSinceLoad(id) == {i \in (LastLoad + 1)..Len(calls) : calls[i] = id}

\* Was id in the cart when the state was last replaced (the empty initial
\* state, or the loaded list)?
InCartAtBase(id) ==
    LastLoad # 0 /\ \E i \in 1..Len(loadResult) : loadResult[i].product.id = id

\* Positions in the item list of the line items of product id.
LinesOf(id) == {i \in 1..Len(state.products) : CurrentItems[i].product.id = id}

RECURSIVE SumQuantity(_)
SumQuantity(items) ==
    IF items = <<>> THEN 0 ELSE items[1].quantity + SumQuantity(Tail(items))

AddSaves == SelectSeq(saves, LAMBDA s : s.by = "add")

\* This step is a state.add call.
IsAddStep == Len(calls') = Len(calls) + 1 /\ Last(calls') # "load"

\* This step is the resolution of the storage load.
IsLoadStep == loadStatus = "pending" /\ loadStatus' = "resolved"

(***************************************************************************)
(* Properties.                                                             *)
(***************************************************************************)

\* C1: in every reachable state the item list holds at most one line item per
\* distinct product identifier.
C1_OneLinePerProduct ==
    \A i, j \in 1..Len(state.products) :
        CurrentItems[i].product.id = CurrentItems[j].product.id => i = j

\* Reached: a loaded cart of two or more lines in which a product was added twice.
C1_Witness ==
    /\ state.loaded
    /\ Len(state.products) >= 2
    /\ \E id \in ProductIds : Cardinality(AddsSinceLoad(id)) >= 2

\* C2: every line item of the item list has an integer quantity >= 1, whatever
\* quantity the caller passes to add.
C2_QuantityPositive ==
    \A i \in 1..Len(state.products) :
        CurrentItems[i].quantity \in Nat /\ CurrentItems[i].quantity >= 1

\* Reached: the last add carried quantity 0 and created the line of its product.
C2_Witness ==
    /\ lastArg # <<>>
    /\ lastArg.quantity = 0
    /\ ~InCartAtBase(lastArg.product.id)
    /\ Cardinality(AddsSinceLoad(lastArg.product.id)) = 1
    /\ \E i \in LinesOf(lastArg.product.id) : CurrentItems[i].quantity = 1

\* C3: a product that was not in the cart and has been added N >= 1 times since
\* (no load resolution in between) has exactly one line item, of quantity N.
C3_MergeByIdentity ==
    \A id \in ProductIds :
        LET N == Cardinality(AddsSinceLoad(id))
        IN  (N >= 1 /\ ~InCartAtBase(id)) =>
                /\ Cardinality(LinesOf(id)) = 1
                /\ \A i \in LinesOf(id) : CurrentItems[i].quantity = N

\* Reached: a product not in the cart has been added MaxAdds times.
C3_Witness ==
    \E id \in ProductIds :
        /\ Cardinality(AddsSinceLoad(id)) = MaxAdds
        /\ ~InCartAtBase(id)
        /\ \E i \in LinesOf(id) : CurrentItems[i].quantity = MaxAdds

\* C4: from a cart containing neither product, add(P1) followed by add(P2) with
\* different identifiers yields two distinct line items, each of quantity 1.
C4_Distinctness ==
    \A id1, id2 \in ProductIds :
        (/\ id1 # id2
         /\ ~InCartAtBase(id1) /\ ~InCartAtBase(id2)
         /\ Cardinality(AddsSinceLoad(id1)) = 1
         /\ Cardinality(AddsSinceLoad(id2)) = 1)
        => \E i \in LinesOf(id1), j \in LinesOf(id2) :
              /\ LinesOf(id1) = {i} /\ LinesOf(id2) = {j}
              /\ i # j
              /\ state.products[i] # state.products[j]
              /\ CurrentItems[i].quantity = 1
              /\ CurrentItems[j].quantity = 1

\* Reached: add("a") then add("b") on a loaded cart that held neither.
C4_Witness ==
    /\ state.loaded
    /\ Len(calls) >= 2
    /\ calls[Len(calls) - 1] = "a" /\ calls[Len(calls)] = "b"
    /\ ~InCartAtBase("a") /\ ~InCartAtBase("b")
    /\ Cardinality(AddsSinceLoad("a")) = 1
    /\ Cardinality(AddsSinceLoad("b")) = 1

\* C5: at every observation count equals the sum of quantity over the line items
\* of the current item list (0 for the empty list).
C5_CountIsSum == count = SumQuantity(CurrentItems)

\* Reached: the last event incremented an existing line item, the sum being 3 or more.
C5_Witness ==
    /\ calls # <<>>
    /\ Last(calls) # "load"
    /\ \E i \in LinesOf(Last(calls)) : CurrentItems[i].quantity >= 2
    /\ SumQuantity(CurrentItems) >= 3

\* C6: once the load has resolved, the list passed to save by an add is the item
\* list of the state the add produces; the load of [{a, 2}] followed by add(a)
\* gives [{a, 3}] and a save of exactly that list.
C6_LoadThenAdd ==
    /\ (state.loaded /\ calls # <<>> /\ Last(calls) # "load") =>
            /\ AddSaves # <<>>
            /\ Last(AddSaves).products = CurrentItems
    /\ (loadResult = <<LineItem("a", 2)>> /\ calls = <<"load", "a">>) =>
            /\ CurrentItems = <<LineItem("a", 3)>>
            /\ Len(AddSaves) = 1
            /\ AddSaves[1].products = <<LineItem("a", 3)>>

\* Reached: [{a, 2}] was loaded and add(a) was called.
C6_Witness == loadResult = <<LineItem("a", 2)>> /\ calls = <<"load", "a">>

\* C7: if the storage load fails the ledger still reaches {items: [], loaded: true}.
C7_FailOpenLoad ==
    loadStatus = "failed" => (state.loaded /\ state.products = <<>>)

\* C8: the ledger starts empty with loaded = false; loaded becomes true only at
\* the step where the storage load resolves, it does become true there, and no
\* later step sets it back to false.
C8_LoadedOnce ==
    /\ state = initialState
    /\ [][/\ state.loaded => state'.loaded
          /\ state'.loaded # state.loaded => IsLoadStep
          /\ IsLoadStep => (~state.loaded /\ state'.loaded)]_vars

\* Reached: an add was made after the load resolved and loaded is still true.
C8_Witness ==
    /\ state.loaded
    /\ LastLoad # 0
    /\ LastLoad < Len(calls)

\* C9: an add made while loaded = false puts its product in the state at once,
\* and the resolution of the load replaces the state by exactly
\* {items: <loaded list>, loaded: true}.
C9_LoadOverwrites ==
    [][/\ (IsAddStep /\ ~state.loaded) =>
              \E i \in 1..Len(state'.products) :
                  heap'[state'.products[i]].product.id = Last(calls')
       /\ IsLoadStep =>
              /\ state'.loaded
              /\ Items(state'.products, heap') = loadResult
              /\ loadResult' = loadResult]_vars

\* Reached: the load resolved after an add of a product the loaded list does not
\* hold; the product is gone from the state.
C9_Witness ==
    /\ LastLoad = Len(calls)
    /\ LastLoad > 1
    /\ \E k \in 1..(LastLoad - 1) :
           /\ \A i \in 1..Len(loadResult) : loadResult[i].product.id # calls[k]
           /\ LinesOf(calls[k]) = {}
    /\ CurrentItems = loadResult

\* C10: every add call issues a save of the new item list, whatever loaded is.
C10_AddAlwaysSaves ==
    [][IsAddStep =>
          saves' = Append(saves, [by |-> "add",
                                  products |-> Items(state'.products, heap')])]_vars

\* Reached: an add made while loaded = false has written its list.
C10_Witness ==
    /\ ~state.loaded
    /\ state.products # <<>>
    /\ saves # <<>>
    /\ Last(saves).by = "add"
    /\ Last(saves).products = CurrentItems
    /\ lastSaveOk

\* C11: whenever loaded is true and the state changes (by the load resolution or
\* by an add) the saveProducts effect is scheduled, and a scheduled effect
\* eventually pushes a save carrying the full current item list.
C11_SaveWhenLoaded ==
    /\ [][(IsLoadStep \/ (IsAddStep /\ state'.loaded)) => effectPending']_vars
    /\ (state.loaded /\ effectPending) ~>
           (/\ saves # <<>>
            /\ Last(saves).by = "effect"
            /\ Last(saves).products = CurrentItems)

\* Reached: the effect has saved the loaded list, no add having been made since
\* the load resolved.
C11_Witness ==
    /\ state.loaded
    /\ calls # <<>>
    /\ Last(calls) = "load"
    /\ saves # <<>>
    /\ Last(saves).by = "effect"
    /\ Last(saves).products = loadResult

\* C12: no state value is mutated in place: the item list that was exposed
\* before an add still shows, after the add, the quantities it showed before.
C12_NoInPlaceMutation ==
    [][IsAddStep => Items(state.products, heap') = Items(state.products, heap)]_vars

\* The item list after this step, by value.
NextItems == Items(state'.products, heap')

\* The list add(id) makes of items, on values: the line of id incremented, or
\* a line of quantity 1 appended.
AddByValue(items, id) ==
    IF \E i \in 1..Len(items) : items[i].product.id = id
    THEN [i \in 1..Len(items) |->
             IF items[i].product.id = id
             THEN [items[i] EXCEPT !.quantity = @ + 1]
             ELSE items[i]]
    ELSE Append(items, LineItem(id, 1))

\* C13 (as claimed): add raises no error, and an add of a product with a missing
\* identifier always appends a new line item of quantity 1.
C13_MalformedNeverMatches ==
    [][(IsAddStep /\ Last(calls') = NoId) =>
          NextItems = Append(CurrentItems, LineItem(NoId, 1))]_vars

\* C13 (amended): add raises no error for an argument with or without an
\* identifier; a product with a missing identifier matches the line item whose
\* product has a missing identifier and no other: the first such add appends a
\* line of quantity 1, each later one increments that line by 1 and leaves the
\* list as long as it was.
C13_MalformedMatchesMalformed ==
    /\ [](\A id \in ProductIds, q \in ArgQuantities :
              Len(add(state, heap, LineItem(id, q)).state.products)
                  \in {Len(state.products), Len(state.products) + 1})
    /\ [][(IsAddStep /\ Last(calls') = NoId) =>
              IF LinesOf(NoId) = {}
              THEN NextItems = Append(CurrentItems, LineItem(NoId, 1))
              ELSE /\ Len(NextItems) = Len(CurrentItems)
                   /\ \A i \in 1..Len(CurrentItems) :
                          NextItems[i] =
                              IF i \in LinesOf(NoId)
                              THEN [CurrentItems[i] EXCEPT !.quantity = @ + 1]
                              ELSE CurrentItems[i]]_vars

\* Reached: a product with a missing identifier was added to a cart that held a
\* line with a missing identifier; there is still one such line, incremented.
C13_Witness ==
    /\ calls # <<>>
    /\ Last(calls) = NoId
    /\ Cardinality(LinesOf(NoId)) = 1
    /\ \E i \in LinesOf(NoId) : CurrentItems[i].quantity >= 2
    /\ \E id \in ProductIds \ {NoId} : LinesOf(id) # {}

\* C15: add(P) changes only P's line: an existing line is incremented by 1, the
\* list keeping its length, its order and its other lines; otherwise a line
\* {P, quantity 1} is appended at the end, whatever quantity the argument carries.
C15_AddFrame ==
    [][IsAddStep =>
          LET id == Last(calls')
          IN  IF LinesOf(id) = {}
              THEN /\ Len(NextItems) = Len(CurrentItems) + 1
                   /\ SubSeq(NextItems, 1, Len(CurrentItems)) = CurrentItems
                   /\ NextItems[Len(NextItems)] = LineItem(id, 1)
                   /\ SubSeq(state'.products, 1, Len(CurrentItems)) = state.products
              ELSE /\ state'.products = state.products
                   /\ \E i \in LinesOf(id) :
                          /\ NextItems[i].quantity = CurrentItems[i].quantity + 1
                          /\ NextItems[i].product = CurrentItems[i].product
                          /\ \A j \in 1..Len(CurrentItems) :
                                 j # i => NextItems[j] = CurrentItems[j]]_vars

\* Reached: the last add carried quantity 0 and appended a line of quantity 1
\* behind two other lines.
C15_Witness ==
    /\ lastArg # <<>>
    /\ lastArg.quantity = 0
    /\ Len(state.products) = 3
    /\ CurrentItems[3] = LineItem(lastArg.product.id, 1)
    /\ Last(calls) = lastArg.product.id

\* C16: add leaves the loaded flag as it was, false or true.
C16_AddKeepsLoaded == [][IsAddStep => state'.loaded = state.loaded]_vars

\* Reached: an add was made before the load resolved and another after it.
C16_Witness ==
    /\ LastLoad > 1
    /\ LastLoad < Len(calls)
    /\ state.loaded

\* The item list the events es give when applied one after the other, in order,
\* to the empty list.
RECURSIVE Replay(_)
Replay(es) ==
    IF es = <<>> THEN <<>>
    ELSE LET before == Replay(SubSeq(es, 1, Len(es) - 1))
             e == es[Len(es)]
         IN  IF e = "load" THEN loadResult ELSE AddByValue(before, e)

\* C18: transitions are applied one at a time in the order of their events: the
\* state is the result of applying the events observed so far, one after the
\* other, and every change of the item list belongs to exactly one new event.
C18_OneAtATime ==
    /\ [](CurrentItems = Replay(calls))
    /\ [][/\ Len(calls') \in {Len(calls), Len(calls) + 1}
          /\ Len(calls') = Len(calls) => (state' = state /\ heap' = heap)
          /\ Len(calls') = Len(calls) + 1 =>
                 /\ SubSeq(calls', 1, Len(calls)) = calls
                 /\ state' # state \/ heap' # heap \/ Last(calls') = "load"]_vars

\* Reached: an add, then the load of a list without that product, then an add
\* of the same product: the list is the loaded one followed by one line of
\* quantity 1.
C18_Witness ==
    /\ Len(calls) = 3
    /\ calls[2] = "load"
    /\ calls[3] = calls[1]
    /\ Len(loadResult) >= 1
    /\ ~InCartAtBase(calls[1])
    /\ CurrentItems = Append(loadResult, LineItem(calls[1], 1))

\* C14: when the save issued by an add fails, the state change of that add
\* still takes effect, and an add made after a failed save works as usual.
C14_SaveFailureIgnored ==
    [][(IsAddStep /\ (~lastSaveOk' \/ ~lastSaveOk)) =>
          /\ NextItems = AddByValue(CurrentItems, Last(calls'))
          /\ Len(saves') = Len(saves) + 1
          /\ Last(saves').products = NextItems]_vars

\* Reached: the save of the last add failed; the state holds the added product.
C14_Witness ==
    /\ ~lastSaveOk
    /\ saves # <<>>
    /\ Last(saves).by = "add"
    /\ Last(calls) # "load"
    /\ LinesOf(Last(calls)) # {}
    /\ CurrentItems = Last(saves).products

\* This step is a ProductList.changePage call.
IsChangePageStep == pageChanges' # pageChanges

\* This step is the failure of a catalog fetch.
IsFetchFailStep == fetching # 0 /\ fetching' = 0 /\ loadAlive /\ ~loadAlive'

\* C17: only the resolution of the storage load and add calls change the cart
\* state; saves, the saveProducts effect, reads of count and product-page
\* changes leave it as it is.
C17_OnlyLoadAndAddChangeState ==
    [][(state' # state \/ heap' # heap) => (IsLoadStep \/ IsAddStep)]_vars

\* Reached: the cart holds a line, and since then a save was made by the
\* effect, count was read and the product page was changed.
C17_Witness ==
    /\ state.loaded
    /\ state.products # <<>>
    /\ saves # <<>>
    /\ Last(saves).by = "effect"
    /\ Last(saves).products = CurrentItems
    /\ countMemo # <<>>
    /\ productsState.page >= 2

\* C19: when a catalog fetch fails the product state becomes
\* {products: empty, status: 'error'}, the page staying as it was.
C19_FetchFailureIsStatus ==
    [][IsFetchFailStep =>
          productsState' = [products |-> <<>>, status |-> "error",
                            page |-> productsState.page]]_vars

\* Reached: page 1 was shown, the fetch of page 2 failed.
C19_Witness ==
    /\ fetched = <<1, 2>>
    /\ ~loadAlive
    /\ productsState = [products |-> <<>>, status |-> "error", page |-> 2]

\* C20: a failed fetch is not retried by itself (getProducts is called only
\* by a page change), and a page change, also one made after a failed fetch,
\* issues a fetch for the requested page.
C20_PageChangeFetches ==
    [][/\ fetched' # fetched => IsChangePageStep
       /\ IsChangePageStep =>
              /\ fetching' = productsState'.page
              /\ fetched' = Append(fetched, productsState'.page)]_vars

\* The saves issued by the saveProducts effect.
EffectSaves == SelectSeq(saves, LAMBDA s : s.by = "effect")

\* This step is a run of the saveProducts effect.
IsEffectStep == effectPending /\ ~effectPending'

\* C21: the saveProducts effect issues a save only when loaded is true: a run
\* of the effect made while loaded is false writes nothing, so as long as
\* loaded is false no save comes from the effect.
C21_EffectSavesOnlyWhenLoaded ==
    /\ [](~state.loaded => EffectSaves = <<>>)
    /\ [][(IsEffectStep /\ ~state.loaded) => saves' = saves]_vars
    /\ [][(Len(saves') > Len(saves) /\ Last(saves').by = "effect") => state.loaded]_vars

\* Reached: the effect has run while loaded was false, the cart holding a
\* line that an add put there; the effect has saved nothing.
C21_Witness ==
    /\ ~state.loaded
    /\ ~effectPending
    /\ state.products # <<>>
    /\ EffectSaves = <<>>

\* This step is the successful answer of a catalog fetch.
IsFetchSuccessStep == fetching # 0 /\ fetching' = 0 /\ loadAlive'

\* C22: the product-list state starts as {products: empty, status: 'loading',
\* page: 1} with the fetch of page 1 issued; a page-change request for page p
\* sets page to p and status to 'loading' and keeps products; a successful
\* fetch sets products to the response and status to 'success' and keeps page.
C22_ProductStateTransitions ==
    /\ productsState = [products |-> <<>>, status |-> "loading", page |-> 1]
    /\ fetching = 1
    /\ fetched = <<1>>
    /\ [][IsChangePageStep =>
              productsState' = [products |-> productsState.products,
                                status   |-> "loading",
                                page     |-> productsState.page + 1]]_vars
    /\ [][IsFetchSuccessStep =>
              productsState' = [products |-> Response(fetching),
                                status   |-> "success",
                                page     |-> productsState.page]]_vars

\* Reached: page 2 was requested and its fetch answered, then page 3 was
\* requested: the products of page 2 are still listed while page 3 loads.
C22_Witness ==
    productsState = [products |-> Response(2), status |-> "loading", page |-> 3]

\* C23: a fetch that a page-change request overtook is never applied: the
\* answer merged into the state is the one to the fetch of the page held in
\* state.page, so whenever status is 'success' the products are the response
\* for that page.
C23_SupersededFetchIgnored ==
    /\ [](productsState.status = "success" =>
              productsState.products = Response(productsState.page))
    /\ [][(IsFetchSuccessStep \/ IsFetchFailStep) => fetching = productsState.page]_vars
    /\ [][(IsChangePageStep /\ fetching # 0) => fetching' # fetching]_vars

\* Reached: page 2 was requested while the fetch of page 1 was in flight (it
\* never answered: no products, no error), and the fetch of page 2 is the one
\* that is waited for.
C23_Witness ==
    /\ fetched = <<1, 2>>
    /\ loadAlive
    /\ fetching = 2
    /\ productsState = [products |-> <<>>, status |-> "loading", page |-> 2]

\* C24: every page-change request is followed, sooner or later, by a state
\* whose status is 'success' or 'error' (each issued fetch answering or
\* failing in the end): the state does not stay at 'loading' for ever, also
\* when an earlier fetch has failed.
C24_PageChangeSettles ==
    (productsState.page >= 2 /\ productsState.status = "loading")
        ~> (productsState.status \in {"success", "error"})

\* C25: page is always an integer >= 1; each ProductList.changePage call
\* raises it by exactly 1 over the page the state held at the call, so after
\* k calls page is 1 + k, whether the fetches answered, failed or are still
\* in flight.
C25_PageCountsCalls ==
    /\ [](/\ productsState.page \in Nat
          /\ productsState.page >= 1
          /\ productsState.page = 1 + pageChanges)
    /\ [][IsChangePageStep =>
              /\ pageChanges' = pageChanges + 1
              /\ productsState'.page = productsState.page + 1]_vars

\* Reached: two calls, the first made while the fetch of page 1 was in flight,
\* the second after the fetch of page 2 had failed.
C25_Witness ==
    /\ pageChanges = 2
    /\ fetched = <<1, 2>>
    /\ ~loadAlive
    /\ productsState.page = 3
    /\ productsState.status = "loading"

\* C26: each add call raises count by exactly 1, for a product new to the
\* cart and for one already in it: count read right after the add is count
\* read right before it plus 1.
C26_AddRaisesCountByOne == [][IsAddStep => count' = count + 1]_vars

\* Reached: count was read after an add that carried quantity 0 and
\* incremented a line the cart already held.
C26_Witness ==
    /\ countMemo # <<>>
    /\ calls # <<>>
    /\ Last(calls) # "load"
    /\ lastArg.quantity = 0
    /\ \E i \in LinesOf(Last(calls)) : CurrentItems[i].quantity >= 2
    /\ countMemo[1] = SumQuantity(CurrentItems)

\* C27: once loaded is true, no add is waiting for the effect and the
\* saveProducts effect has run, the most recent save carries the current
\* item list; after an add, the save made inside the add and the one made by
\* the effect both carry that list.
C27_LastSaveIsCurrent ==
    (state.loaded /\ ~effectPending) =>
        /\ saves # <<>>
        /\ Last(saves) = [by |-> "effect", products |-> CurrentItems]
        /\ Last(calls) # "load" =>
               /\ Len(saves) >= 2
               /\ saves[Len(saves) - 1] = [by |-> "add", products |-> CurrentItems]

\* Reached: the load resolved, a line the loaded list held was incremented by
\* an add, and the effect has run since.
C27_Witness ==
    /\ state.loaded
    /\ ~effectPending
    /\ LastLoad # 0
    /\ LastLoad < Len(calls)
    /\ InCartAtBase(Last(calls))
    /\ Len(saves) >= 2
    /\ saves[Len(saves) - 1].by = "add"
    /\ Last(saves).by = "effect"
    /\ Last(saves).products = CurrentItems

\* The product identifiers of a list of line items.
IdsOf(items) == {items[i].product.id : i \in 1..Len(items)}

\* C28: after loaded has become true the cart only grows: no step removes a
\* product identifier from the item list, lowers the quantity of a line item
\* or changes the order of the line items it already held.
C28_CartOnlyGrows ==
    [][state.loaded =>
          /\ IdsOf(CurrentItems) \subseteq IdsOf(NextItems)
          /\ Len(NextItems) >= Len(CurrentItems)
          /\ \A i \in 1..Len(CurrentItems) :
                 /\ NextItems[i].product = CurrentItems[i].product
                 /\ NextItems[i].quantity >= CurrentItems[i].quantity]_vars

\* Reached: since the load of a list of one line or more, one add incremented
\* a loaded line that is not the last and another appended a line.
C28_Witness ==
    /\ state.loaded
    /\ LastLoad # 0
    /\ Len(calls) = LastLoad + 2
    /\ InCartAtBase(calls[LastLoad + 1])
    /\ ~InCartAtBase(calls[LastLoad + 2])
    /\ Len(CurrentItems) = Len(loadResult) + 1
    /\ \E i \in 1..(Len(loadResult) - 1) :
           CurrentItems[i].quantity = loadResult[i].quantity + 1

=============================================================================
